---- MODULE Spec2Model ----
(***************************************************************************)
(* A model of medviz: the volume metadata reader (VolumeMd::from_buffer),  *)
(* the voxel constructor (Voxel::from and friends) and the volume with its *)
(* three lazy frame iterators (Volume::from_slice, xframe, yframe,         *)
(* zframe).                                                                *)
(*                                                                         *)
(* Byte slices are modelled as records [ok, bytes]: ok = FALSE is the      *)
(* panic of an out-of-bounds slice index.  Results are records with a tag. *)
(* A usize is the sequence of its four 16-bit words.  Text is a sequence   *)
(* of characters, each a one-character string or the name of its code      *)
(* point.                                                                  *)
(***************************************************************************)
EXTENDS Integers, Sequences, FiniteSets, TLC

VARIABLES
  overflow_checks, \* the build checks arithmetic overflows (debug) or not (release)
  metadata,   \* the VolumeMd handed to Volume::from_slice
  data,       \* the byte buffer handed to Volume::from_slice
  volume,     \* the result of Volume::from_slice, or [tag |-> "None"] before the call
  iters,      \* the frame iterators alive over the volume, by identity
  buffer,     \* the metadata text handed to VolumeMd::from_buffer
  md_pc,      \* position of from_buffer: "idle", "loop", "done"
  line_index, \* from_buffer: the index of the next line of the for loop (0-based)
  res,        \* from_buffer: the local `res`
  md_result,  \* from_buffer: the returned value, or [tag |-> "None"] while running
  vx_value,   \* the u16 a voxel is made of
  vx_bytes,   \* the two bytes handed to Voxel::from_bytes, or <<>>
  vx,         \* the result of Voxel::from or Voxel::from_bytes, or [tag |-> "None"]
  vx_norm     \* the result of value_normalized() on vx, or [tag |-> "None"]

vol_vars == <<overflow_checks, metadata, data, volume, iters>>
md_vars == <<buffer, md_pc, line_index, res, md_result>>
vx_vars == <<vx_value, vx_bytes, vx, vx_norm>>
vars ==
  <<overflow_checks, metadata, data, volume, iters, buffer, md_pc, line_index, res,
    md_result,
    vx_value, vx_bytes, vx, vx_norm>>

-----------------------------------------------------------------------------
(* Bounds of the model. *)

\* The dimensions of a volume and the frame indexes are drawn from 0..MaxDim,
\* and from a few numbers that make the byte arithmetic overflow.
MaxDim == 2

\* A metadata text has at most MaxLines lines taken from MdLines.
MaxLines == 2

\* The identities of the frame iterators that may be alive at once.
IterIds == {"a", "b"}

Dims == 0..MaxDim

\* A volume of dimensions 0..MaxDim has at most MaxVoxels voxels.
MaxVoxels == 8

\* The longest data buffer: one voxel more than the largest volume, plus one byte.
MaxBytes == 2 * MaxVoxels + 3

None == [tag |-> "None"]

-----------------------------------------------------------------------------
(* Voxel (src/src/voxel.rs) *)

\* Voxel::size(): mem::size_of::<u16>()
VoxelSize == 2

\* The largest value of a 12-bit voxel.
VoxelMax == 4095

\* Voxel::from with the limit off by one.
Voxel_from_off_by_one(value) ==
  IF value > VoxelMax + 1
    THEN [tag |-> "Err", err |-> [kind |-> "VoxelValueOOR", value |-> value]]
    ELSE [tag |-> "Ok", value |-> value]

\* Voxel::from
Voxel_from(value) ==
  IF value > VoxelMax
    THEN [tag |-> "Err", err |-> [kind |-> "VoxelValueOOR", value |-> value]]
    ELSE [tag |-> "Ok", value |-> value]

\* u16::from_be_bytes([b0, b1])
u16_from_be_bytes(b0, b1) == 256 * b0 + b1

\* u16::from_le_bytes([b0, b1])
u16_from_le_bytes(b0, b1) == b0 + 256 * b1

\* Voxel::from_array
Voxel_from_array(b0, b1) == Voxel_from(u16_from_le_bytes(b0, b1))

\* Voxel::from_bytes
Voxel_from_bytes(byte0, byte1) == Voxel_from_array(byte0, byte1)

\* Voxel::from_slice: indexing slice[0] and slice[1] panics on a shorter slice.
Voxel_from_slice(slice) ==
  IF Len(slice) < 2
    THEN [tag |-> "Panic"]
    ELSE Voxel_from_array(slice[1], slice[2])

\* The largest u16.
U16Max == 65535

\* u16::to_le_bytes
to_le_bytes(v) == <<v % 256, v \div 256>>

\* Voxel::value
Voxel_value(voxel) == voxel.value

-----------------------------------------------------------------------------
(* f32 arithmetic for value_normalized.  An f32 is [m, e], the number       *)
(* m * 2^e with 2^23 <= m < 2^24, or m = 0 for zero; every operation rounds  *)
(* its exact result to the nearest such number, ties to the even mantissa.   *)

RECURSIVE Pow2(_)
Pow2(k) == IF k = 0 THEN 1 ELSE 2 * Pow2(k - 1)

F32Min == Pow2(23)
F32Lim == Pow2(24)

\* The mantissa after rounding up may need one more bit.
F32Carry(m, e) == IF m = F32Lim THEN [m |-> F32Min, e |-> e + 1] ELSE [m |-> m, e |-> e]

\* Round to nearest, ties to even: q with a remainder of r parts out of d.
F32Nearest(q, r, d, e) ==
  IF 2 * r > d \/ (2 * r = d /\ q % 2 = 1) THEN F32Carry(q + 1, e) ELSE [m |-> q, e |-> e]

\* f32::from(u16): exact.
RECURSIVE F32Normal(_, _)
F32Normal(m, e) == IF m < F32Min THEN F32Normal(2 * m, e - 1) ELSE [m |-> m, e |-> e]
f32_from_u16(v) == IF v = 0 THEN [m |-> 0, e |-> 0] ELSE F32Normal(v, 0)

\* Long division: the quotient q with remainder r of d, one more bit at a time.
RECURSIVE F32DivBits(_, _, _, _)
F32DivBits(q, r, d, e) ==
  IF q >= F32Min THEN F32Nearest(q, r, d, e)
  ELSE F32DivBits(2 * q + (IF 2 * r >= d THEN 1 ELSE 0),
                  IF 2 * r >= d THEN 2 * r - d ELSE 2 * r, d, e - 1)

\* a / d for an f32 a and a whole number d > 1 that is an f32.
f32_div(a, d) ==
  IF a.m = 0 THEN a ELSE F32DivBits(a.m \div d, a.m % d, d, a.e)

\* a * c for an f32 a and a whole number 0 < c < 256: the product of the
\* mantissa is 256 * hi + lo, of 31 or 32 bits.
f32_mul(a, c) ==
  IF a.m = 0 THEN a
  ELSE LET hi == c * (a.m \div 256) + (c * (a.m % 256)) \div 256
           lo == (c * (a.m % 256)) % 256
       IN IF hi >= F32Min
            THEN F32Nearest(hi, lo, 256, a.e + 8)
            ELSE F32Nearest(2 * hi + lo \div 128, lo % 128, 128, a.e + 7)

\* f32::round that drops the fraction.
f32_trunc(a) ==
  IF a.m = 0 THEN 0
  ELSE IF a.e >= 0 THEN a.m * Pow2(a.e)
  ELSE IF -a.e > 24 THEN 0
  ELSE a.m \div Pow2(-a.e)

\* f32::round: to the nearest whole number, halves away from zero.
f32_round(a) ==
  IF a.m = 0 THEN 0
  ELSE IF a.e >= 0 THEN a.m * Pow2(a.e)
  ELSE IF -a.e > 24 THEN 0
  ELSE a.m \div Pow2(-a.e) + (IF 2 * (a.m % Pow2(-a.e)) >= Pow2(-a.e) THEN 1 ELSE 0)

\* to_int_unchecked::<u8>: the value when it is a u8; undefined behaviour
\* otherwise, any u8.
to_int_unchecked_u8(n) == IF n \in 0..255 THEN {n} ELSE 0..255

\* Voxel::value_normalized before the cast: ((value / 4095.0) * 255.0).round()
normalized_f32(v) == f32_round(f32_mul(f32_div(f32_from_u16(v), VoxelMax), 255))

\* Voxel::value_normalized: the results the cast can give.
value_normalized(voxel) == to_int_unchecked_u8(normalized_f32(Voxel_value(voxel)))

\* utils::normalize: the same computation on a bare u16.
normalize(v) == to_int_unchecked_u8(normalized_f32(v))

\* utils::voxel_from_bytes
voxel_from_bytes(byte0, byte1) == u16_from_le_bytes(byte0, byte1)

-----------------------------------------------------------------------------
(* usize of a 64-bit target.  A value is the sequence of its four 16-bit    *)
(* words, the least significant first.  `a * b` and `a + b` panic on        *)
(* overflow when the build checks overflows (debug builds) and wrap modulo  *)
(* 2^64 when it does not (release builds).                                  *)

\* mem::size_of::<usize>()
UsizeBytes == 8

\* The numbers a 16-bit word holds are below Word.
Word == 256 * 256

\* The usize that holds the number n.
usize(n) ==
  <<n % Word, (n \div Word) % Word, ((n \div Word) \div Word) % Word,
    (((n \div Word) \div Word) \div Word) % Word>>

usize_zero == usize(0)

\* The number is below 2^31, and the number it is.
IsInt(u) == u[2] < 32768 /\ u[3] = 0 /\ u[4] = 0
nat(u) == u[1] + Word * u[2]

\* The number is below 2^15.
IsShort(u) == u[1] < 32768 /\ u[2] = 0 /\ u[3] = 0 /\ u[4] = 0

\* a < b and a <= b
usize_lt(a, b) ==
  IF a[4] # b[4] THEN a[4] < b[4]
  ELSE IF a[3] # b[3] THEN a[3] < b[3]
  ELSE IF a[2] # b[2] THEN a[2] < b[2]
  ELSE a[1] < b[1]
usize_le(a, b) == a = b \/ usize_lt(a, b)

\* usize::to_le_bytes and usize::from_le_bytes
usize_to_le_bytes(u) ==
  <<u[1] % 256, u[1] \div 256, u[2] % 256, u[2] \div 256,
    u[3] % 256, u[3] \div 256, u[4] % 256, u[4] \div 256>>
usize_from_le_bytes(b) ==
  <<b[1] + 256 * b[2], b[3] + 256 * b[4], b[5] + 256 * b[6], b[7] + 256 * b[8]>>

\* The bytes all zero from the k-th on (1-based).
ZeroFrom(b, k) == \A i \in k..Len(b) : b[i] = 0

\* Column k (0-based) of the long multiplication of the bytes a by the bytes b:
\* the sum of the products a[i] * b[j] with i + j = k.
RECURSIVE ColumnSum(_, _, _, _)
ColumnSum(a, b, k, i) ==
  IF i > k \/ i >= Len(a) THEN 0
  ELSE (IF k - i < Len(b) THEN a[i + 1] * b[k - i + 1] ELSE 0) + ColumnSum(a, b, k, i + 1)

\* The bytes of a * b from column k on, Len(a) + Len(b) bytes in all.
RECURSIVE MulBytes(_, _, _, _)
MulBytes(a, b, k, carry) ==
  IF k = Len(a) + Len(b) THEN <<>>
  ELSE LET s == ColumnSum(a, b, k, 0) + carry
       IN <<s % 256>> \o MulBytes(a, b, k + 1, s \div 256)

\* The bytes of a + b from byte k on (0-based), one byte more than a.
RECURSIVE AddBytes(_, _, _, _)
AddBytes(a, b, k, carry) ==
  IF k = Len(a) THEN <<carry>>
  ELSE LET s == a[k + 1] + b[k + 1] + carry
       IN <<s % 256>> \o AddBytes(a, b, k + 1, s \div 256)

\* The panic of an arithmetic overflow.
UsizePanic == [ok |-> FALSE, val |-> usize_zero]

\* The outcome of an operation whose exact result has the bytes `wide`: the
\* result when it fits, else a panic (overflow checks on) or the low 64 bits
\* (overflow checks off).
Arith(wide) ==
  IF ~ZeroFrom(wide, UsizeBytes + 1) /\ overflow_checks
    THEN UsizePanic
    ELSE [ok |-> TRUE, val |-> usize_from_le_bytes(wide)]

\* a * b
usize_mul(a, b) ==
  IF IsShort(a) /\ IsShort(b)
    THEN [ok |-> TRUE, val |-> <<(a[1] * b[1]) % Word, (a[1] * b[1]) \div Word, 0, 0>>]
    ELSE Arith(MulBytes(usize_to_le_bytes(a), usize_to_le_bytes(b), 0, 0))

\* a + b
usize_add(a, b) ==
  IF IsShort(a) /\ IsShort(b)
    THEN [ok |-> TRUE, val |-> <<a[1] + b[1], 0, 0, 0>>]
    ELSE Arith(AddBytes(usize_to_le_bytes(a), usize_to_le_bytes(b), 0, 0))

\* a - 1, for a > 0
usize_dec(a) ==
  LET i == CHOOSE j \in 1..4 : a[j] # 0 /\ \A l \in 1..(j - 1) : a[l] = 0
  IN [j \in 1..4 |-> IF j < i THEN Word - 1 ELSE IF j = i THEN a[j] - 1 ELSE a[j]]

\* a + 1, for a < usize::MAX
usize_inc(a) ==
  LET i == CHOOSE j \in 1..4 : a[j] # Word - 1 /\ \A l \in 1..(j - 1) : a[l] = Word - 1
  IN [j \in 1..4 |-> IF j < i THEN 0 ELSE IF j = i THEN a[j] + 1 ELSE a[j]]

-----------------------------------------------------------------------------
(* VolumeMd accessors (src/src/metadata.rs) *)

xdim(md) == md.xdim
ydim(md) == md.ydim
zdim(md) == md.zdim
xframe_len(md) == usize_mul(md.ydim, md.zdim)
yframe_len(md) == usize_mul(md.xdim, md.zdim)
zframe_len(md) == usize_mul(md.xdim, md.ydim)

-----------------------------------------------------------------------------
(* Volume (src/src/volume.rs) *)

\* Voxel::size() as a usize
VoxelSizeU == usize(VoxelSize)

\* The range index s[lo..hi] of a Rust slice: panics unless lo <= hi <= s.len().
SlicePanic == [ok |-> FALSE, bytes |-> <<>>]
Slice(s, lo, hi) ==
  IF usize_le(lo, hi) /\ usize_le(hi, usize(Len(s)))
    THEN [ok |-> TRUE, bytes |-> SubSeq(s, nat(lo) + 1, nat(hi))]
    ELSE SlicePanic

\* s[lo..lo + size]: the end of the range is computed first.
SliceFrom(s, lo, size) ==
  LET hi == usize_add(lo, size) IN
  IF ~hi.ok THEN SlicePanic ELSE Slice(s, lo, hi.val)

\* r * b, for the outcome r of an earlier operation.
then_mul(r, b) == IF r.ok THEN usize_mul(r.val, b) ELSE r

\* Volume::from_slice with its two checks in the other order.
from_slice_uneven_first(md, d) ==
  LET expected == then_mul(then_mul(usize_mul(xdim(md), ydim(md)), zdim(md)), VoxelSizeU) IN
  IF ~expected.ok THEN [tag |-> "Panic"]
  ELSE IF Len(d) % VoxelSize # 0
    THEN [tag |-> "Err", err |-> [kind |-> "DataSizeUneven", size |-> usize(Len(d))]]
  ELSE IF usize(Len(d)) # expected.val
    THEN [tag |-> "Err",
          err |-> [kind |-> "DataSizeMismatch", actual |-> usize(Len(d)),
                   expected |-> expected.val]]
  ELSE [tag |-> "Ok", metadata |-> md, data |-> d]

\* Volume::from_slice: [tag |-> "Panic"] when the expected size overflows in a
\* build that checks overflows.
from_slice(md, d) ==
  LET expected == then_mul(then_mul(usize_mul(xdim(md), ydim(md)), zdim(md)), VoxelSizeU) IN
  IF ~expected.ok THEN [tag |-> "Panic"]
  ELSE IF usize(Len(d)) # expected.val
    THEN [tag |-> "Err",
          err |-> [kind |-> "DataSizeMismatch", actual |-> usize(Len(d)),
                   expected |-> expected.val]]
  ELSE IF Len(d) % VoxelSize # 0
    THEN [tag |-> "Err", err |-> [kind |-> "DataSizeUneven", size |-> usize(Len(d))]]
  ELSE [tag |-> "Ok", metadata |-> md, data |-> d]

\* Volume::zframe_bytes
zframe_bytes(vol, zframe_index) ==
  LET zframe_size == then_mul(zframe_len(vol.metadata), VoxelSizeU)
      zframe_byte_index == then_mul(zframe_size, zframe_index)
  IN IF ~zframe_byte_index.ok THEN SlicePanic
     ELSE SliceFrom(vol.data, zframe_byte_index.val, zframe_size.val)

\* Volume::zframe_row_bytes
zframe_row_bytes(vol, zframe_index, row_index) ==
  LET row_size == usize_mul(xdim(vol.metadata), VoxelSizeU)
      row_byte_index == then_mul(row_size, row_index)
      zframe == zframe_bytes(vol, zframe_index)
  IN IF ~row_byte_index.ok \/ ~zframe.ok THEN SlicePanic
     ELSE SliceFrom(zframe.bytes, row_byte_index.val, row_size.val)

\* Volume::zframe_voxel_bytes
zframe_voxel_bytes(vol, zframe_index, x, y) ==
  LET row == zframe_row_bytes(vol, zframe_index, y)
      voxel_byte_index == usize_mul(x, VoxelSizeU)
  IN IF ~row.ok \/ ~voxel_byte_index.ok THEN SlicePanic
     ELSE SliceFrom(row.bytes, voxel_byte_index.val, VoxelSizeU)

\* slice.chunks(n), the pos-th chunk (0-based): the last one may be shorter.
Chunk(bytes, pos) ==
  SubSeq(bytes, pos * VoxelSize + 1,
         IF pos * VoxelSize + VoxelSize <= Len(bytes)
           THEN pos * VoxelSize + VoxelSize ELSE Len(bytes))

\* The coordinates computed by the final map of each frame: (index % dim,
\* index / dim), for the index of enumerate(), the count of the elements
\* yielded so far (a number below 2^31), and a dimension other than 0.
Coords(index, dim) ==
  IF IsInt(dim)
    THEN [x |-> index % nat(dim), y |-> index \div nat(dim)]
    ELSE [x |-> index, y |-> 0]

\* An iterator that does not exist.
NoIter ==
  [st |-> "none", axis |-> "-", index |-> usize_zero, bytes |-> <<>>, pos |-> 0,
   zrem |-> usize_zero, inner |-> None, count |-> 0, out |-> <<>>]

\* Emit where the first voxel out of range ends the iterator.
Emit_abort(it, voxel, dim) ==
  IF voxel.tag = "Panic" \/ dim = usize_zero
    THEN [it EXCEPT !.st = "panicked"]
  ELSE IF voxel.tag = "Err"
    THEN [it EXCEPT !.st = "done"]
    ELSE [it EXCEPT !.count = @ + 1,
                    !.out = Append(@, [voxel |-> voxel,
                                       x |-> Coords(it.count, dim).x,
                                       y |-> Coords(it.count, dim).y])]

\* One element leaves the enumerate().map(..) stage of an iterator: the voxel
\* result with the coordinates of its index; a panic while decoding or while
\* computing the coordinates (division by zero) unwinds instead.
Emit(it, voxel, dim) ==
  IF voxel.tag = "Panic" \/ dim = usize_zero
    THEN [it EXCEPT !.st = "panicked"]
    ELSE [it EXCEPT !.count = @ + 1,
                    !.out = Append(@, [voxel |-> voxel,
                                       x |-> Coords(it.count, dim).x,
                                       y |-> Coords(it.count, dim).y])]

\* Volume::zframe: zframe_iter slices the frame when the iterator is made.
zframe(vol, zframe_index) ==
  LET bytes == zframe_bytes(vol, zframe_index) IN
  IF ~bytes.ok
    THEN [NoIter EXCEPT !.st = "panicked", !.axis = "z", !.index = zframe_index]
    ELSE [NoIter EXCEPT !.st = "live", !.axis = "z", !.index = zframe_index,
                        !.bytes = bytes.bytes]

\* next() of the iterator of Volume::zframe
zframe_next(vol, it) ==
  IF it.pos * VoxelSize < Len(it.bytes)
    THEN Emit([it EXCEPT !.pos = @ + 1],
              Voxel_from_slice(Chunk(it.bytes, it.pos)), xdim(vol.metadata))
    ELSE [it EXCEPT !.st = "done"]

\* (0..zdim).rev(): the element next() yields when zrem elements remain.
rev_next(zd, zrem) == usize_dec(zrem)

\* Volume::yframe: (0..zdim).rev().map(..).flatten().enumerate().map(..); lazy,
\* nothing is sliced before the first next().
yframe(vol, yframe_index) ==
  [NoIter EXCEPT !.st = "live", !.axis = "y", !.index = yframe_index,
                 !.zrem = zdim(vol.metadata)]

\* next() of the iterator of Volume::yframe: the flatten over the reversed Z
\* range, whose inner iterator is zframe_row_iter(zframe_index, yframe_index).
RECURSIVE yframe_next(_, _)
yframe_next(vol, it) ==
  IF it.inner.tag = "Row"
    THEN IF it.inner.pos * VoxelSize < Len(it.inner.bytes)
           THEN Emit([it EXCEPT !.inner.pos = @ + 1],
                     Voxel_from_slice(Chunk(it.inner.bytes, it.inner.pos)),
                     xdim(vol.metadata))
           ELSE yframe_next(vol, [it EXCEPT !.inner = None])
  ELSE IF it.zrem = usize_zero
    THEN [it EXCEPT !.st = "done"]
  ELSE LET zframe_index == rev_next(zdim(vol.metadata), it.zrem)
           row == zframe_row_bytes(vol, zframe_index, it.index)
       IN IF ~row.ok
            THEN [it EXCEPT !.st = "panicked", !.zrem = usize_dec(@)]
            ELSE yframe_next(vol, [it EXCEPT !.zrem = usize_dec(@),
                                             !.inner = [tag |-> "Row", bytes |-> row.bytes,
                                                        pos |-> 0]])

\* Volume::xframe: as yframe, with zframe_col_iter as the inner iterator.
xframe(vol, xframe_index) ==
  [NoIter EXCEPT !.st = "live", !.axis = "x", !.index = xframe_index,
                 !.zrem = zdim(vol.metadata)]

\* next() of the iterator of Volume::xframe: the inner iterator is
\* zframe_col_iter(zframe_index, xframe_index), (0..ydim).map(..), each element
\* read by zframe_voxel_bytes(frame_index, col_index, row_index).
RECURSIVE xframe_next(_, _)
xframe_next(vol, it) ==
  IF it.inner.tag = "Col"
    THEN IF usize_lt(it.inner.row, ydim(vol.metadata))
           THEN LET bytes == zframe_voxel_bytes(vol, it.inner.z, it.index, it.inner.row) IN
                IF ~bytes.ok
                  THEN [it EXCEPT !.st = "panicked", !.inner.row = usize_inc(@)]
                  ELSE Emit([it EXCEPT !.inner.row = usize_inc(@)],
                            Voxel_from_slice(bytes.bytes), ydim(vol.metadata))
           ELSE xframe_next(vol, [it EXCEPT !.inner = None])
  ELSE IF it.zrem = usize_zero
    THEN [it EXCEPT !.st = "done"]
  ELSE xframe_next(vol, [it EXCEPT !.zrem = usize_dec(@),
                                   !.inner = [tag |-> "Col",
                                              z |-> rev_next(zdim(vol.metadata), it.zrem),
                                              row |-> usize_zero]])

\* next() of a frame iterator, by the axis it was made for.
frame_next(vol, it) ==
  CASE it.axis = "x" -> xframe_next(vol, it)
    [] it.axis = "y" -> yframe_next(vol, it)
    [] it.axis = "z" -> zframe_next(vol, it)

-----------------------------------------------------------------------------
(* The data buffers, the metadata and the frame indexes of the model. *)

\* The i-th sample (0-based) of a buffer: "seq" numbers the voxels, "mix" mixes
\* values inside and outside the 12-bit range.
Sample(p, i) ==
  IF p = "seq" THEN i ELSE (i * 2731 + 300) % 8192

\* The j-th byte (0-based) of the little-endian encoding of the samples.
SampleByte(p, j) ==
  IF j % 2 = 0 THEN Sample(p, j \div 2) % 256 ELSE Sample(p, j \div 2) \div 256

DataOf(p, n) == [j \in 1..n |-> SampleByte(p, j - 1)]

\* The buffers of every length with mixed samples, and the 8 voxels 0..7.
DataSet == {DataOf("mix", n) : n \in 0..MaxBytes} \cup {DataOf("seq", 16)}

\* 2^61, 2^62, 2^62 + 1 and 2^63
Usize2p61 == <<0, 0, 0, 8192>>
Usize2p62 == <<0, 0, 0, 16384>>
Usize2p62p1 == <<1, 0, 0, 16384>>
Usize2p63 == <<0, 0, 0, 32768>>

\* The volumes of dimensions 0..MaxDim with at most MaxVoxels voxels, and two
\* whose size in bytes does not fit usize: 2^63 x 1 x 1 (2^64 bytes) and
\* (2^62 + 1) x 2 x 1 (2^64 + 4 bytes).
MdSet ==
  {[xdim |-> usize(d[1]), ydim |-> usize(d[2]), zdim |-> usize(d[3])] :
     d \in {e \in Dims \X Dims \X Dims : e[1] * e[2] * e[3] <= MaxVoxels}}
    \cup {[xdim |-> Usize2p63, ydim |-> usize(1), zdim |-> usize(1)],
          [xdim |-> Usize2p62p1, ydim |-> usize(2), zdim |-> usize(1)]}

\* The frame indexes of each axis: those below MaxDim, and one whose byte
\* offset does not fit usize (2 * 2^63, 4 * 2^62 and 8 * 2^61 are 2^64).
XIndexes == {usize(k) : k \in 0..(MaxDim - 1)} \cup {Usize2p63}
YIndexes == {usize(k) : k \in 0..(MaxDim - 1)} \cup {Usize2p62}
ZIndexes == {usize(k) : k \in 0..(MaxDim - 1)} \cup {Usize2p61}

-----------------------------------------------------------------------------
(* The volume and its frame iterators as a state machine. *)

VolInit ==
  /\ overflow_checks \in BOOLEAN
  /\ metadata \in MdSet
  /\ data \in DataSet
  /\ volume = None
  /\ iters = [i \in IterIds |-> NoIter]
  /\ buffer = <<>>
  /\ md_pc = "idle"
  /\ line_index = 0
  /\ res = None
  /\ md_result = None
  /\ vx_value = 0
  /\ vx_bytes = <<>>
  /\ vx = None
  /\ vx_norm = None

\* let volume = Volume::from_slice(metadata, &data)
FromSlice ==
  /\ volume = None
  /\ volume' = from_slice(metadata, data)
  /\ UNCHANGED <<overflow_checks, metadata, data, iters, md_vars, vx_vars>>

\* let it = volume.xframe(k)
XFrame(i, k) ==
  /\ volume.tag = "Ok"
  /\ iters[i].st = "none"
  /\ iters' = [iters EXCEPT ![i] = xframe(volume, k)]
  /\ UNCHANGED <<overflow_checks, metadata, data, volume, md_vars, vx_vars>>

\* let it = volume.yframe(k)
YFrame(i, k) ==
  /\ volume.tag = "Ok"
  /\ iters[i].st = "none"
  /\ iters' = [iters EXCEPT ![i] = yframe(volume, k)]
  /\ UNCHANGED <<overflow_checks, metadata, data, volume, md_vars, vx_vars>>

\* let it = volume.zframe(k)
ZFrame(i, k) ==
  /\ volume.tag = "Ok"
  /\ iters[i].st = "none"
  /\ iters' = [iters EXCEPT ![i] = zframe(volume, k)]
  /\ UNCHANGED <<overflow_checks, metadata, data, volume, md_vars, vx_vars>>

\* it.next() with one enumerate() counter shared by all the live iterators.
IterNext_shared(i) ==
  /\ volume.tag = "Ok"
  /\ iters[i].st = "live"
  /\ iters' = [j \in IterIds |->
                IF j = i THEN frame_next(volume, iters[i])
                ELSE IF iters[j].st = "live" THEN [iters[j] EXCEPT !.count = @ + 1]
                ELSE iters[j]]
  /\ UNCHANGED <<overflow_checks, metadata, data, volume, md_vars, vx_vars>>

\* it.next()
IterNext(i) ==
  /\ volume.tag = "Ok"
  /\ iters[i].st = "live"
  /\ iters' = [iters EXCEPT ![i] = frame_next(volume, iters[i])]
  /\ UNCHANGED <<overflow_checks, metadata, data, volume, md_vars, vx_vars>>

\* drop(it): the iterator is abandoned, consumed or not.
IterDrop(i) ==
  /\ iters[i].st # "none"
  /\ iters' = [iters EXCEPT ![i] = NoIter]
  /\ UNCHANGED <<overflow_checks, metadata, data, volume, md_vars, vx_vars>>

VolNext ==
  \/ FromSlice
  \/ \E i \in IterIds, k \in XIndexes : XFrame(i, k)
  \/ \E i \in IterIds, k \in YIndexes : YFrame(i, k)
  \/ \E i \in IterIds, k \in ZIndexes : ZFrame(i, k)
  \/ \E i \in IterIds : IterNext(i)
  \/ \E i \in IterIds : IterDrop(i)

SpecVol == VolInit /\ [][VolNext]_vars

-----------------------------------------------------------------------------
(* Text: str::split, str::trim, str::split_whitespace and atoi's checked    *)
(* radix-10 parse, over sequences of one-character strings.                 *)

\* The characters with the Unicode property White_Space; those that have no
\* escape in a string are written by the name of their code point.
WhiteSpace ==
  {"\t", "\n", "U+000B", "\f", "\r", " ", "U+0085", "U+00A0", "U+1680",
   "U+2000", "U+2001", "U+2002", "U+2003", "U+2004", "U+2005", "U+2006", "U+2007",
   "U+2008", "U+2009", "U+200A", "U+2028", "U+2029", "U+202F", "U+205F", "U+3000"}

\* char::is_whitespace
IsWs(c) == c \in WhiteSpace

DigitChars == <<"0", "1", "2", "3", "4", "5", "6", "7", "8", "9">>
IsDigit(c) == \E i \in 1..10 : DigitChars[i] = c
DigitVal(c) == (CHOOSE i \in 1..10 : DigitChars[i] = c) - 1

MinOf(S) == CHOOSE m \in S : \A n \in S : m <= n
MaxOf(S) == CHOOSE m \in S : \A n \in S : m >= n

\* s.split(sep): the pieces between the separators, always at least one piece.
RECURSIVE Split(_, _)
Split(s, sep) ==
  LET at == {i \in 1..Len(s) : s[i] = sep} IN
  IF at = {} THEN <<s>>
  ELSE <<SubSeq(s, 1, MinOf(at) - 1)>> \o Split(SubSeq(s, MinOf(at) + 1, Len(s)), sep)

\* s.trim()
trim(s) ==
  LET ink == {i \in 1..Len(s) : ~IsWs(s[i])} IN
  IF ink = {} THEN <<>> ELSE SubSeq(s, MinOf(ink), MaxOf(ink))

\* s.split_whitespace(): the non-empty runs of non-whitespace characters.
RECURSIVE split_whitespace(_)
split_whitespace(s) ==
  LET ink == {i \in 1..Len(s) : ~IsWs(s[i])} IN
  IF ink = {} THEN <<>>
  ELSE LET first == MinOf(ink)
           ws == {i \in first..Len(s) : IsWs(s[i])}
           last == IF ws = {} THEN Len(s) ELSE MinOf(ws) - 1
       IN <<SubSeq(s, first, last)>> \o split_whitespace(SubSeq(s, last + 1, Len(s)))

\* usize::MAX of a 64-bit target, in decimal digits.
UsizeMaxDigits ==
  <<"1", "8", "4", "4", "6", "7", "4", "4", "0", "7", "3", "7", "0", "9", "5", "5", "1", "6",
    "1", "5">>

\* The digits without their leading zeros.
RECURSIVE StripZeros(_)
StripZeros(ds) ==
  IF ds # <<>> /\ ds[1] = "0" THEN StripZeros(Tail(ds)) ELSE ds

\* a > b for two digit strings of the same length.
RECURSIVE DigitsGreater(_, _)
DigitsGreater(a, b) ==
  IF a = <<>> THEN FALSE
  ELSE IF a[1] # b[1] THEN DigitVal(a[1]) > DigitVal(b[1])
  ELSE DigitsGreater(Tail(a), Tail(b))

\* The number does not fit usize: checked_mul or checked_add has returned None.
Overflows(ds) ==
  LET t == StripZeros(ds) IN
  \/ Len(t) > Len(UsizeMaxDigits)
  \/ Len(t) = Len(UsizeMaxDigits) /\ DigitsGreater(t, UsizeMaxDigits)

\* number = number * 10 + digit over the digits, left to right.
RECURSIVE Accumulate(_, _)
Accumulate(number, ds) ==
  IF ds = <<>> THEN number
  ELSE Accumulate(number * 10 + DigitVal(ds[1]), Tail(ds))

\* usize::from_radix_10_checked(text.as_bytes()) of the atoi crate: the number
\* made of the leading digits (None when it overflows usize) and the count of
\* characters used; parsing stops at the first character that is no digit.
from_radix_10_checked(text) ==
  LET stop == {i \in 1..Len(text) : ~IsDigit(text[i])}
      used == IF stop = {} THEN Len(text) ELSE MinOf(stop) - 1
      digits == SubSeq(text, 1, used)
  IN [dim |-> IF Overflows(digits) THEN None
              ELSE [tag |-> "Some", value |-> usize(Accumulate(0, digits))],
      used |-> used]

-----------------------------------------------------------------------------
(* VolumeMd::from_buffer (src/src/metadata.rs) *)

DimSizeKey == <<"D", "i", "m", "S", "i", "z", "e">>

MdErr(e) == [tag |-> "Err", err |-> e]
new_invalid_md(n) == MdErr([kind |-> "InvalidMd", line_number |-> n])
new_invalid_value(n, text) == MdErr([kind |-> "InvalidValue", line_number |-> n, value |-> text])
new_duplicate_key(n) == MdErr([kind |-> "DuplicateKey", line_number |-> n])
new_key_not_found == MdErr([kind |-> "KeyNotFound"])
new_too_many_values(n) == MdErr([kind |-> "TooManyValues", line_number |-> n])

\* let line_number = line_index, the number of a line counted from 0.
line_number_from_zero(index) == index

\* let line_number = line_index + 1
line_number_of(index) == index + 1

\* res.is_some() that never sees the entry already found.
is_some_never(r) == FALSE

\* res.is_some()
is_some(r) == r.tag = "Some"

\* Self { xdim, ydim, zdim } with the first two dimensions exchanged.
new_md_swapped(x, y, z) == [xdim |-> y, ydim |-> x, zdim |-> z]

\* Self { xdim, ydim, zdim }
new_md(x, y, z) == [xdim |-> x, ydim |-> y, zdim |-> z]

\* parse_dimension_size!: the value, or the error the macro returns with.
parse_dimension_size(text, n) ==
  LET p == from_radix_10_checked(text) IN
  IF p.used = 0 THEN new_invalid_value(n, text)
  ELSE IF p.dim = None THEN new_invalid_value(n, text)
  ELSE [tag |-> "Ok", value |-> p.dim.value]

\* The body of the for loop for one line: [tag |-> "Continue", res] when the
\* loop goes on with `res`, [tag |-> "Return", result] when the function returns.
loop_body(line, index, r) ==
  LET n == line_number_of(index)
      entry == Split(line, "=")
      Continue(rr) == [tag |-> "Continue", res |-> rr]
      Return(e) == [tag |-> "Return", result |-> e]
  IN
  IF Len(entry) = 0 THEN Continue(r)
  ELSE LET key == trim(entry[1]) IN
  IF key = <<>> THEN Continue(r)
  ELSE IF key # DimSizeKey THEN Continue(r)
  ELSE IF is_some(r) THEN Return(new_duplicate_key(n))
  ELSE IF Len(entry) < 2 THEN Return(new_invalid_md(n))
  ELSE LET value == trim(entry[2])
           dims == split_whitespace(value)
       IN
  IF Len(dims) < 3 THEN Return(new_invalid_md(n))
  ELSE IF Len(dims) > 3 THEN Return(new_too_many_values(n))
  ELSE LET x == parse_dimension_size(dims[1], n) IN
  IF x.tag = "Err" THEN Return(x)
  ELSE LET y == parse_dimension_size(dims[2], n) IN
  IF y.tag = "Err" THEN Return(y)
  ELSE LET z == parse_dimension_size(dims[3], n) IN
  IF z.tag = "Err" THEN Return(z)
  ELSE Continue([tag |-> "Some", value |-> new_md(x.value, y.value, z.value)])

\* The final match that turns a missing `res` into a default volume.
loop_end_default(r) ==
  IF r.tag = "Some" THEN [tag |-> "Ok", value |-> r.value]
  ELSE [tag |-> "Ok", value |-> new_md(usize_zero, usize_zero, usize_zero)]

\* The final match on `res`.
loop_end(r) ==
  IF r.tag = "Some" THEN [tag |-> "Ok", value |-> r.value] ELSE new_key_not_found

\* buffer.split(|c| c == '\n')
LinesOf(b) == Split(b, "\n")

\* The for loop from line `index` (0-based) on, and the final match.
RECURSIVE scan(_, _, _)
scan(lines, index, r) ==
  IF index >= Len(lines) THEN loop_end(r)
  ELSE LET step == loop_body(lines[index + 1], index, r) IN
       IF step.tag = "Return" THEN step.result ELSE scan(lines, index + 1, step.res)

\* VolumeMd::from_buffer
from_buffer(b) == scan(LinesOf(b), 0, None)

-----------------------------------------------------------------------------
(* The metadata texts. *)

S(n) == [i \in 1..n |-> " "]
EQ == <<"=">>
T2 == <<"2">>
T3 == <<"3">>
T4 == <<"4">>
ABC == <<"a", "b", "c">>
\* usize::MAX + 1
TooBig ==
  <<"1", "8", "4", "4", "6", "7", "4", "4", "0", "7", "3", "7", "0", "9", "5", "5", "1", "6",
    "1", "6">>

\* Joins the pieces with one separator between two of them.
RECURSIVE Join(_, _)
Join(pieces, sep) ==
  IF pieces = <<>> THEN <<>>
  ELSE IF Len(pieces) = 1 THEN pieces[1]
  ELSE pieces[1] \o sep \o Join(Tail(pieces), sep)

\* `DimSize = ` followed by the tokens, one space between two of them.
DimLine(tokens) == DimSizeKey \o S(1) \o EQ \o S(1) \o Join(tokens, S(1))

MdLines ==
  { <<>>,                                                   \* an empty line
    S(2),                                                   \* a blank line
    <<"N", "D", "i", "m", "s">> \o S(1) \o EQ \o S(1) \o T3,   \* NDims = 3
    <<"f", "o", "o">>,                                      \* foo
    EQ \o S(1) \o T2 \o S(1) \o T3 \o S(1) \o T4,             \* = 2 3 4
    DimSizeKey \o <<"s">> \o EQ \o T2 \o S(1) \o T3 \o S(1) \o T4, \* DimSizes=2 3 4
    DimLine(<<T2, T3, T4>>),                                \* DimSize = 2 3 4
    <<"\f">> \o DimSizeKey \o <<"\t">> \o EQ \o <<"1", "0">> \o <<" ", "U+00A0">> \o <<"0">>
      \o <<"\t">> \o <<"0", "0", "7">> \o <<"\r">>,   \* `\fDimSize\t=10 <U+00A0>0\t007\r`
    DimLine(<<T2, T3>>),                                    \* DimSize = 2 3
    DimSizeKey \o S(1) \o EQ,                               \* DimSize =
    DimSizeKey,                                             \* DimSize
    DimLine(<<T2, T3, T4, T2>>),                            \* DimSize = 2 3 4 2
    DimLine(<<T2, T3, ABC>>),                               \* DimSize = 2 3 abc
    DimLine(<<<<"1", "2", "a", "b", "c">>, T2, T3>>),       \* DimSize = 12abc 2 3
    DimLine(<<<<"-", "5">>, T2, T3>>),                      \* DimSize = -5 2 3
    DimLine(<<T2, T3, T4, EQ, T2>>),                        \* DimSize = 2 3 4 = 2
    DimLine(<<T2, T3, EQ, T4>>),                            \* DimSize = 2 3 = 4
    DimLine(<<<<"x">>, <<"y">>>>),                          \* DimSize = x y
    DimLine(<<<<"a">>, <<"b">>, <<"c">>, <<"d">>>>),        \* DimSize = a b c d
    DimLine(<<T2, T3, TooBig>>),                            \* DimSize = 2 3 18446744073709551616
    DimLine(<<T2, TooBig, <<"z">>>>),                       \* DimSize = 2 18446744073709551616 z
    DimLine(<<T2, <<"x", "9">>, <<"y">>>>) }                \* DimSize = 2 x9 y

\* The texts of at most MaxLines lines of MdLines, joined by newlines.
MdBuffers ==
  {Join(ls, <<"\n">>) : ls \in UNION {[1..n -> MdLines] : n \in 0..MaxLines}}

-----------------------------------------------------------------------------
(* VolumeMd::from_buffer as a state machine: one step for each line. *)

MdInit ==
  /\ buffer \in MdBuffers
  /\ md_pc = "loop"
  /\ line_index = 0
  /\ res = None
  /\ md_result = None
  /\ vx_value = 0
  /\ vx_bytes = <<>>
  /\ vx = None
  /\ vx_norm = None
  /\ overflow_checks = TRUE
  /\ metadata = new_md(usize_zero, usize_zero, usize_zero)
  /\ data = <<>>
  /\ volume = None
  /\ iters = [i \in IterIds |-> NoIter]

\* One turn of the for loop: the line is skipped or accepted, or the function
\* returns with an error.
MdLine ==
  /\ md_pc = "loop"
  /\ line_index < Len(LinesOf(buffer))
  /\ LET step == loop_body(LinesOf(buffer)[line_index + 1], line_index, res) IN
       IF step.tag = "Return"
         THEN /\ md_result' = step.result
              /\ md_pc' = "done"
              /\ UNCHANGED <<res, line_index>>
         ELSE /\ res' = step.res
              /\ line_index' = line_index + 1
              /\ UNCHANGED <<md_result, md_pc>>
  /\ UNCHANGED <<buffer, vol_vars, vx_vars>>

\* The loop is over: the final match on `res`.
MdEnd ==
  /\ md_pc = "loop"
  /\ line_index = Len(LinesOf(buffer))
  /\ md_result' = loop_end(res)
  /\ md_pc' = "done"
  /\ UNCHANGED <<buffer, res, line_index, vol_vars, vx_vars>>

MdNext == MdLine \/ MdEnd

SpecMd == MdInit /\ [][MdNext]_vars

-----------------------------------------------------------------------------
(* Voxels as a state machine: a voxel is made of a u16, or of its two       *)
(* little-endian bytes, and then normalized.                                *)

VxInit ==
  /\ vx_value \in 0..U16Max
  /\ vx_bytes = <<>>
  /\ vx = None
  /\ vx_norm = None
  /\ overflow_checks = TRUE
  /\ metadata = new_md(usize_zero, usize_zero, usize_zero)
  /\ data = <<>>
  /\ volume = None
  /\ iters = [i \in IterIds |-> NoIter]
  /\ buffer = <<>>
  /\ md_pc = "idle"
  /\ line_index = 0
  /\ res = None
  /\ md_result = None

\* let voxel = Voxel::from(value)
VoxelFrom ==
  /\ vx = None
  /\ vx' = Voxel_from(vx_value)
  /\ UNCHANGED <<vx_value, vx_bytes, vx_norm, vol_vars, md_vars>>

\* let [b0, b1] = value.to_le_bytes(); let voxel = Voxel::from_bytes(b0, b1)
VoxelFromBytes ==
  /\ vx = None
  /\ vx_bytes' = to_le_bytes(vx_value)
  /\ vx' = Voxel_from_bytes(vx_bytes'[1], vx_bytes'[2])
  /\ UNCHANGED <<vx_value, vx_norm, vol_vars, md_vars>>

\* voxel.value_normalized()
VoxelNormalize ==
  /\ vx.tag = "Ok"
  /\ vx_norm = None
  /\ \E n \in value_normalized(vx) : vx_norm' = [tag |-> "Some", value |-> n]
  /\ UNCHANGED <<vx_value, vx_bytes, vx, vol_vars, md_vars>>

\* let bytes = value.to_le_bytes(); let voxel = Voxel::from_slice(&bytes)
VoxelFromSlice ==
  /\ vx = None
  /\ vx_bytes' = to_le_bytes(vx_value)
  /\ vx' = Voxel_from_slice(vx_bytes')
  /\ UNCHANGED <<vx_value, vx_norm, vol_vars, md_vars>>

VxNext == VoxelFrom \/ VoxelFromBytes \/ VoxelFromSlice \/ VoxelNormalize

SpecVoxel == VxInit /\ [][VxNext]_vars

-----------------------------------------------------------------------------
(* Claims about the volume.  The claims count in the natural numbers: Ex    *)
(* gives the number a usize holds when it is below ExLim, and Huge for      *)
(* every number at or above it, which is above every length and offset of   *)
(* the buffers.                                                             *)

ExLim == 256 * 256 * 256
Huge == 0 - 1

Ex(u) == IF u[2] < 256 /\ u[3] = 0 /\ u[4] = 0 THEN nat(u) ELSE Huge

ExMul(a, b) ==
  IF a = 0 \/ b = 0 THEN 0
  ELSE IF a = Huge \/ b = Huge THEN Huge
  ELSE IF a > (ExLim - 1) \div b THEN Huge
  ELSE a * b

ExAdd(a, b) ==
  IF a = Huge \/ b = Huge \/ a + b >= ExLim THEN Huge ELSE a + b

\* a - b for a number b below ExLim; Huge also when b is above a.
ExSub(a, b) == IF a = Huge \/ a < b THEN Huge ELSE a - b

\* n mod d and n div d for a number n below ExLim and d other than 0.
ExMod(n, d) == IF d = Huge THEN n ELSE n % d
ExDiv(n, d) == IF d = Huge THEN 0 ELSE n \div d

\* The dimension of the axis an iterator was made for.
AxisDim(axis) ==
  CASE axis = "x" -> metadata.xdim
    [] axis = "y" -> metadata.ydim
    [] axis = "z" -> metadata.zdim

\* The width of the rows of a frame of an axis.
FrameWidth(axis) == IF axis = "x" THEN Ex(metadata.ydim) ELSE Ex(metadata.xdim)

\* The iterators made with an index inside the volume, of any axis.
InRange ==
  {i \in IterIds : iters[i].st # "none" /\ usize_lt(iters[i].index, AxisDim(iters[i].axis))}

\* The iterators made with an index outside the volume.
OutOfRange ==
  {i \in IterIds : iters[i].st # "none" /\ usize_le(AxisDim(iters[i].axis), iters[i].index)}

\* The iterators of one axis that were made with an index inside the volume.
FramesOf(axis) == {i \in InRange : iters[i].axis = axis}

\* The byte offset of the sample that element n (from 0) of frame k of an axis
\* addresses; Huge when the frame has no such element.
Addr(axis, k, n) ==
  LET X == Ex(metadata.xdim)
      Y == Ex(metadata.ydim)
      Z == Ex(metadata.zdim)
      W == FrameWidth(axis)
      x == ExMod(n, W)
      y == ExDiv(n, W)
      z == ExSub(ExSub(Z, 1), y)
      XY == ExMul(X, Y)
  IN IF W = 0 THEN Huge
     ELSE CASE axis = "x" -> ExMul(2, ExAdd(ExAdd(ExMul(z, XY), ExMul(x, X)), k))
            [] axis = "y" -> ExMul(2, ExAdd(ExAdd(ExMul(z, XY), ExMul(k, X)), x))
            [] axis = "z" -> ExMul(2, ExAdd(ExAdd(ExMul(k, XY), ExMul(y, X)), x))

\* The buffer holds two bytes at a byte offset (0-based).
HasSample(off) == off # Huge /\ off + 2 <= Len(data)

\* The 16-bit sample at a byte offset of the buffer.
SampleAt(off) == data[off + 1] + 256 * data[off + 2]

\* The voxel decoded from the two bytes at a byte offset of the buffer.
VoxelAt(off) ==
  IF HasSample(off) THEN Voxel_from_bytes(data[off + 1], data[off + 2]) ELSE None

\* C1: zframe(k), k < Z, yields exactly X*Y triples; the i-th (from 0) has
\* x = i mod X, y = i div X and the voxel decoded at byte offset
\* 2*(k*X*Y + y*X + x), so every (x, y) of [0,X) x [0,Y) appears exactly once,
\* row-major; a 2x2x2 volume holding 0..7 yields 0,1,2,3 for zframe(0) and
\* 4,5,6,7 for zframe(1), at (0,0),(1,0),(0,1),(1,1).
C1_ZFrame ==
  LET X == Ex(metadata.xdim)
      Y == Ex(metadata.ydim)
      Z == Ex(metadata.zdim)
      P == ExMul(X, Y)
  IN \A i \in FramesOf("z") :
       LET it == iters[i]
           k == Ex(it.index)
       IN /\ it.st \in {"live", "done"}
          /\ P # Huge => Len(it.out) <= P
          /\ it.st = "done" => Len(it.out) = P
          /\ \A n \in 1..Len(it.out) :
               /\ it.out[n].x = ExMod(n - 1, X)
               /\ it.out[n].y = ExDiv(n - 1, X)
               /\ it.out[n].voxel = VoxelAt(Addr("z", k, n - 1))
          /\ it.st = "done" =>
               \A x \in 0..(X - 1), y \in 0..(Y - 1) :
                 /\ Cardinality({n \in 1..Len(it.out) :
                                   it.out[n].x = x /\ it.out[n].y = y}) = 1
                 /\ it.out[y * X + x + 1].x = x
                 /\ it.out[y * X + x + 1].y = y
          /\ (it.st = "done" /\ X = 2 /\ Y = 2 /\ Z = 2 /\ data = DataOf("seq", 16)) =>
               [n \in 1..4 |-> <<it.out[n].voxel.value, it.out[n].x, it.out[n].y>>]
                 = IF k = 0 THEN << <<0, 0, 0>>, <<1, 1, 0>>, <<2, 0, 1>>, <<3, 1, 1>> >>
                            ELSE << <<4, 0, 0>>, <<5, 1, 0>>, <<6, 0, 1>>, <<7, 1, 1>> >>

\* C2: yframe(k), k < Y, yields exactly X*Z triples; the i-th has x = i mod X,
\* y = i div X and the voxel at volume position (x, k, Z-1-y), byte offset
\* 2*((Z-1-y)*X*Y + k*X + x): the rows come from the Z-frames in reverse order.
C2_YFrame ==
  LET X == Ex(metadata.xdim)
      Z == Ex(metadata.zdim)
      P == ExMul(X, Z)
  IN \A i \in FramesOf("y") :
       LET it == iters[i]
           k == Ex(it.index)
       IN /\ it.st \in {"live", "done"}
          /\ P # Huge => Len(it.out) <= P
          /\ it.st = "done" => Len(it.out) = P
          /\ \A n \in 1..Len(it.out) :
               /\ it.out[n].x = ExMod(n - 1, X)
               /\ it.out[n].y = ExDiv(n - 1, X)
               /\ it.out[n].voxel = VoxelAt(Addr("y", k, n - 1))

\* C3: xframe(k), k < X, yields exactly Y*Z triples; the i-th has x = i mod Y,
\* y = i div Y and the voxel at volume position (k, x, Z-1-y), byte offset
\* 2*((Z-1-y)*X*Y + x*X + k): the columns come from the Z-frames in reverse
\* order, each voxel of a column read on its own with row stride X*2.
C3_XFrame ==
  LET Y == Ex(metadata.ydim)
      Z == Ex(metadata.zdim)
      P == ExMul(Y, Z)
  IN \A i \in FramesOf("x") :
       LET it == iters[i]
           k == Ex(it.index)
       IN /\ it.st \in {"live", "done"}
          /\ P # Huge => Len(it.out) <= P
          /\ it.st = "done" => Len(it.out) = P
          /\ \A n \in 1..Len(it.out) :
               /\ it.out[n].x = ExMod(n - 1, Y)
               /\ it.out[n].y = ExDiv(n - 1, Y)
               /\ it.out[n].voxel = VoxelAt(Addr("x", k, n - 1))

\* xdim * ydim * zdim * 2 in the natural numbers, as 25 bytes.
ExactSize ==
  MulBytes(MulBytes(MulBytes(usize_to_le_bytes(metadata.xdim),
                             usize_to_le_bytes(metadata.ydim), 0, 0),
                    usize_to_le_bytes(metadata.zdim), 0, 0),
           <<2>>, 0, 0)

\* The usize u holds the number of the bytes b, 8 bytes or more.
SameNumber(u, b) == SubSeq(b, 1, UsizeBytes) = usize_to_le_bytes(u) /\ ZeroFrom(b, UsizeBytes + 1)

\* C4: from_slice succeeds iff the buffer holds exactly xdim*ydim*zdim*2 bytes,
\* and fails with DataSizeMismatch{actual: len, expected: xdim*ydim*zdim*2} for
\* every other length, whatever the samples are.
C4_FromSlice ==
  volume # None =>
    IF SameNumber(usize(Len(data)), ExactSize)
      THEN volume = [tag |-> "Ok", metadata |-> metadata, data |-> data]
      ELSE /\ volume.tag = "Err"
           /\ volume.err.kind = "DataSizeMismatch"
           /\ volume.err.actual = usize(Len(data))
           /\ SameNumber(volume.err.expected, ExactSize)

\* An iterator consumed alone until it ends or panics.
RECURSIVE RunAlone(_, _)
RunAlone(vol, it) ==
  IF it.st = "live" THEN RunAlone(vol, frame_next(vol, it)) ELSE it

\* The iterator a frame extraction returns, by axis.
Fresh(vol, axis, k) ==
  CASE axis = "x" -> xframe(vol, k)
    [] axis = "y" -> yframe(vol, k)
    [] axis = "z" -> zframe(vol, k)

\* The volume over a buffer of the same length whose samples are all 0.
ZeroVolume == [volume EXCEPT !.data = [j \in 1..Len(data) |-> 0]]

\* The buffer holds exactly the xdim * ydim * zdim samples of the volume.
ExactVolume ==
  Len(data) = ExMul(ExMul(ExMul(Ex(metadata.xdim), Ex(metadata.ydim)), Ex(metadata.zdim)), 2)

\* The number of samples an iterator has decoded so far, in a volume whose
\* buffer holds all its samples.
Decoded(it) ==
  LET X == Ex(metadata.xdim)
      Y == Ex(metadata.ydim)
      Z == Ex(metadata.zdim)
      zrem == Ex(it.zrem)
  IN CASE it.axis = "z" -> it.pos
       [] it.axis = "y" ->
            IF it.inner.tag = "Row"
              THEN (Z - zrem - 1) * X + it.inner.pos
              ELSE (Z - zrem) * X
       [] it.axis = "x" ->
            IF it.inner.tag = "Col"
              THEN (Z - zrem - 1) * Y + Ex(it.inner.row)
              ELSE (Z - zrem) * Y

\* C15: samples out of range are reported element by element and lazily: for
\* an index in range, the number of elements, their coordinates and the way
\* the iterator ends are those of the same frame over a buffer of zeros; the
\* element at a position is Err(VoxelValueOOR(v)) exactly when the sample v it
\* addresses is above 4095 and Ok(v) otherwise; and after n elements exactly n
\* samples were decoded.
C15_PerElementErrors ==
  \A i \in InRange :
    LET it == iters[i]
        zero == RunAlone(ZeroVolume, Fresh(ZeroVolume, it.axis, it.index))
    IN /\ Len(it.out) <= Len(zero.out)
       /\ it.st # "live" => it.st = zero.st /\ Len(it.out) = Len(zero.out)
       /\ it.count = Len(it.out)
       /\ ExactVolume => Decoded(it) = Len(it.out)
       /\ \A n \in 1..Len(it.out) :
            LET off == Addr(it.axis, Ex(it.index), n - 1) IN
            /\ it.out[n].x = zero.out[n].x
            /\ it.out[n].y = zero.out[n].y
            /\ zero.out[n].voxel = [tag |-> "Ok", value |-> 0]
            /\ HasSample(off)
            /\ SampleAt(off) > 4095 <=> it.out[n].voxel.tag = "Err"
            /\ SampleAt(off) > 4095 =>
                 it.out[n].voxel = [tag |-> "Err",
                                    err |-> [kind |-> "VoxelValueOOR",
                                             value |-> SampleAt(off)]]
            /\ SampleAt(off) <= 4095 =>
                 it.out[n].voxel = [tag |-> "Ok", value |-> SampleAt(off)]

\* A frame consumed to its end that holds an error followed by a voxel.
C15_Witness ==
  \E i \in InRange :
    /\ iters[i].st = "done"
    /\ \E n \in 1..Len(iters[i].out), m \in 1..Len(iters[i].out) :
         /\ n < m
         /\ iters[i].out[n].voxel.tag = "Err"
         /\ iters[i].out[m].voxel.tag = "Ok"

IsPrefix(s, t) == Len(s) <= Len(t) /\ s = SubSeq(t, 1, Len(s))

\* C16: frame iterators over one volume are independent and read-only: however
\* creating, consuming and dropping several of them is interleaved, each has
\* yielded a prefix of what it yields when consumed alone, all of it once it
\* has ended, and the volume still holds the buffer and the metadata it was
\* built over.
C16_Independent ==
  /\ volume.tag = "Ok" => volume.data = data /\ volume.metadata = metadata
  /\ \A i \in IterIds :
       iters[i].st # "none" =>
         LET it == iters[i]
             alone == RunAlone(volume, Fresh(volume, it.axis, it.index))
         IN /\ IsPrefix(it.out, alone.out)
            /\ it.st # "live" => it.st = alone.st /\ it.out = alone.out

\* Two frames of different axes, one consumed to its end while the other was
\* partly consumed.
C16_Witness ==
  \E i \in IterIds, j \in IterIds :
    /\ iters[i].st = "done" /\ Len(iters[i].out) >= 2
    /\ iters[j].st = "live" /\ Len(iters[j].out) >= 1
    /\ iters[i].axis # iters[j].axis

\* C17: a frame extraction whose index is outside the volume panics and yields
\* nothing: zframe panics when called, xframe and yframe at the first next(),
\* and none comes to an end as if the frame were empty.
C17_OutOfRangePanics ==
  \A i \in OutOfRange :
    /\ iters[i].out = <<>>
    /\ iters[i].st # "done"
    /\ iters[i].axis = "z" => iters[i].st = "panicked"

\* C18: from_slice never returns DataSizeUneven: its only error is
\* DataSizeMismatch, and a buffer that passes the size check has an even length.
C18_NeverUneven ==
  volume # None =>
    /\ volume.tag = "Err" => volume.err.kind = "DataSizeMismatch"
    /\ volume.tag = "Ok" => Len(data) % 2 = 0
    /\ LET expected ==
             then_mul(then_mul(usize_mul(metadata.xdim, metadata.ydim), metadata.zdim),
                      usize(2))
       IN (expected.ok /\ usize(Len(data)) = expected.val) =>
            volume.tag = "Ok" /\ Len(data) % 2 = 0

\* A buffer of odd length was refused for a volume with a zero dimension.
C18_Witness ==
  /\ volume.tag = "Err"
  /\ volume.err.kind = "DataSizeMismatch"
  /\ Len(data) % 2 = 1
  /\ usize_zero \in {metadata.xdim, metadata.ydim, metadata.zdim}
  /\ {metadata.xdim, metadata.ydim, metadata.zdim} # {usize_zero}

-----------------------------------------------------------------------------
(* Claims about the metadata reader.  The key of a line is the text before  *)
(* its first `=` (the whole line when it has none), trimmed; a DimSize line *)
(* is a line whose key is DimSize.                                          *)

MdDone == md_pc = "done"
Lines == LinesOf(buffer)
HasEq(line) == \E i \in 1..Len(line) : line[i] = "="
KeyOf(line) == trim(Split(line, "=")[1])
KeyLines == {n \in 1..Len(Lines) : KeyOf(Lines[n]) = DimSizeKey}

\* All the text after the first `=` of a line that has one.
AfterFirstEq(line) ==
  SubSeq(line, MinOf({i \in 1..Len(line) : line[i] = "="}) + 1, Len(line))

\* The tokens of the value of a line: of the text between its first `=` and
\* its second one (or its end); none for a line without `=`.
ValueTokens(line) ==
  IF HasEq(line) THEN split_whitespace(Split(line, "=")[2]) ELSE <<>>

AllDigits(t) == t # <<>> /\ \A i \in 1..Len(t) : IsDigit(t[i])

\* The number a string of decimal digits denotes.
RECURSIVE DecimalValue(_)
DecimalValue(t) ==
  IF t = <<>> THEN 0
  ELSE 10 * DecimalValue(SubSeq(t, 1, Len(t) - 1)) + DigitVal(t[Len(t)])

\* The token is a decimal number that fits usize.
GoodToken(t) == AllDigits(t) /\ ~Overflows(t)

\* `DimSize = X Y Z`: the key DimSize, a `=`, and after it exactly three
\* tokens, each a decimal number that fits usize.
WellFormed(line) ==
  /\ HasEq(line)
  /\ KeyOf(line) = DimSizeKey
  /\ LET toks == split_whitespace(AfterFirstEq(line)) IN
       Len(toks) = 3 /\ \A i \in 1..3 : GoodToken(toks[i])

\* C5: a text with exactly one DimSize line, that line well-formed as
\* `DimSize = X Y Z`, gives Ok with (xdim, ydim, zdim) = (X, Y, Z) in that
\* order, whatever the other lines are.
C5_SingleDimSize ==
  (MdDone /\ Cardinality(KeyLines) = 1 /\ WellFormed(Lines[MinOf(KeyLines)])) =>
    LET toks == split_whitespace(AfterFirstEq(Lines[MinOf(KeyLines)])) IN
    md_result = [tag |-> "Ok",
                 value |-> [xdim |-> usize(DecimalValue(toks[1])),
                            ydim |-> usize(DecimalValue(toks[2])),
                            zdim |-> usize(DecimalValue(toks[3]))]]

\* The dimensions 10, 0 and 7 were read from a line that is not the first one
\* and whose tokens have leading zeros and mixed whitespace around them.
C5_Witness ==
  /\ MdDone
  /\ md_result = [tag |-> "Ok", value |-> [xdim |-> usize(10), ydim |-> usize(0), zdim |-> usize(7)]]
  /\ Len(Lines) >= 2
  /\ 1 \notin KeyLines

\* C6: after a well-formed DimSize line has been accepted the scan goes on, and
\* a later DimSize line (the first of them) makes from_buffer fail with
\* DuplicateKey and the number of that later line, whatever its value is.
C6_DuplicateKey ==
  /\ (MdDone /\ md_result.tag = "Ok") => line_index = Len(Lines)
  /\ (MdDone /\ KeyLines # {} /\ WellFormed(Lines[MinOf(KeyLines)])) =>
       LET later == KeyLines \ {MinOf(KeyLines)} IN
       later # {} => md_result = new_duplicate_key(MinOf(later))

\* A duplicate was reported at a line whose value is not a valid one.
C6_Witness ==
  /\ MdDone
  /\ md_result.tag = "Err" /\ md_result.err.kind = "DuplicateKey"
  /\ md_result.err.line_number >= 2
  /\ ~WellFormed(Lines[md_result.err.line_number])

\* C7: when the value of the first DimSize line holds fewer than three tokens
\* (none included) from_buffer fails with InvalidMd, and with TooManyValues
\* when it holds more than three; both carry the 1-based number of that line
\* and do not depend on the tokens being numbers.
C7_TokenCount ==
  (MdDone /\ KeyLines # {}) =>
    LET n == MinOf(KeyLines)
        count == Len(ValueTokens(Lines[n]))
    IN /\ count < 3 => md_result = new_invalid_md(n)
       /\ count > 3 => md_result = new_too_many_values(n)

\* Too many values were reported for a line, not the first of the text, none of
\* whose tokens is a number.
C7_Witness ==
  /\ MdDone
  /\ md_result.tag = "Err" /\ md_result.err.kind = "TooManyValues"
  /\ md_result.err.line_number >= 2
  /\ \A i \in 1..Len(ValueTokens(Lines[md_result.err.line_number])) :
       ~AllDigits(ValueTokens(Lines[md_result.err.line_number])[i])

\* C8: from_buffer fails with KeyNotFound for the empty text, for blank lines
\* only and for every text without a DimSize line; it returns Ok only with the
\* dimensions of a DimSize line it has accepted.
C8_KeyNotFound ==
  MdDone =>
    /\ KeyLines = {} => md_result = new_key_not_found
    /\ (\A n \in 1..Len(Lines) : trim(Lines[n]) = <<>>) => md_result = new_key_not_found
    /\ md_result.tag = "Ok" =>
         /\ KeyLines # {}
         /\ res = [tag |-> "Some", value |-> md_result.value]
         /\ loop_body(Lines[MinOf(KeyLines)], MinOf(KeyLines) - 1, None)
              = [tag |-> "Continue", res |-> res]

\* No key was found in a text of several lines, one of them a key = value line.
C8_Witness ==
  /\ MdDone
  /\ md_result = new_key_not_found
  /\ Len(Lines) >= 2
  /\ \E n \in 1..Len(Lines) : HasEq(Lines[n]) /\ KeyOf(Lines[n]) # <<>>

\* The first token, in x, y, z order, that is no decimal number fitting usize.
FirstBadToken(toks) == toks[MinOf({i \in 1..Len(toks) : ~GoodToken(toks[i])})]

\* C9: each of the three tokens is accepted only if the whole token is a
\* decimal number that fits usize; otherwise from_buffer fails with
\* InvalidValue, the line number and the text of the first such token.
C9_InvalidValue ==
  (MdDone /\ KeyLines # {}) =>
    LET n == MinOf(KeyLines)
        toks == ValueTokens(Lines[n])
    IN (Len(toks) = 3 /\ \E i \in 1..3 : ~GoodToken(toks[i])) =>
         md_result = new_invalid_value(n, FirstBadToken(toks))

\* The text with every line that has no `=` replaced by an empty line.
WithoutEqLess ==
  Join([n \in 1..Len(Lines) |-> IF HasEq(Lines[n]) THEN Lines[n] ELSE <<>>], <<"\n">>)

\* C10: a line without `=` is skipped: it produces no error and the result is
\* the result for the text without it, whatever the line is.
C10_NoEqSkipped ==
  MdDone =>
    /\ md_result = from_buffer(WithoutEqLess)
    /\ (md_result.tag = "Err" /\ md_result.err.kind # "KeyNotFound") =>
         HasEq(Lines[md_result.err.line_number])

\* C11: a line is split at its first `=` only: the value is all the text after
\* it, further `=` included, and the token count of a DimSize line is judged on
\* everything after the first `=` (`DimSize = 1 2 3 = 4` has too many values).
C11_FirstEqOnly ==
  (MdDone /\ KeyLines # {} /\ HasEq(Lines[MinOf(KeyLines)])) =>
    LET n == MinOf(KeyLines)
        count == Len(split_whitespace(AfterFirstEq(Lines[n])))
    IN /\ count < 3 => md_result = new_invalid_md(n)
       /\ count > 3 => md_result = new_too_many_values(n)

-----------------------------------------------------------------------------
(* Claims about voxels. *)

\* C12: Voxel::from(v) is Ok with the value v if and only if v <= 4095 and
\* VoxelValueOOR(v) otherwise; from_bytes and from_slice go through it, so the
\* value of every voxel is in 0..4095.
C12_VoxelRange ==
  vx # None =>
    /\ vx_value <= 4095 => vx = [tag |-> "Ok", value |-> vx_value]
    /\ vx_value > 4095 =>
         vx = [tag |-> "Err", err |-> [kind |-> "VoxelValueOOR", value |-> vx_value]]
    /\ vx.tag = "Ok" => Voxel_value(vx) \in 0..4095

\* The first value out of range was refused, given as two bytes.
C12_Witness ==
  /\ vx_value = 4096
  /\ vx_bytes = <<0, 16>>
  /\ vx = [tag |-> "Err", err |-> [kind |-> "VoxelValueOOR", value |-> 4096]]

\* v * 255 / 4095 rounded to the nearest whole number (no value is half-way).
ExactRound(v) == (2 * v * 255 + 4095) \div (2 * 4095)

\* C13: for every voxel value v in 0..4095, value_normalized() is
\* round(v * 255 / 4095), is in 0..255 (the unchecked cast is defined), does not
\* decrease with v, and is 0 for 0, 128 for 2048 and 255 for 4095.
C13_Normalized ==
  vx_norm # None =>
    LET v == Voxel_value(vx)
        n == vx_norm.value
    IN /\ n = ExactRound(v)
       /\ n \in 0..255
       /\ normalized_f32(v) \in 0..255
       /\ v >= 1 => \A m \in normalize(v - 1) : m <= n
       /\ v = 0 => n = 0
       /\ v = 2048 => n = 128
       /\ v = 4095 => n = 255

\* The middle value 2048 was normalized to 128.
C13_Witness ==
  /\ vx = [tag |-> "Ok", value |-> 2048]
  /\ vx_norm = [tag |-> "Some", value |-> 128]

\* C14: from_bytes(b0, b1) decodes the little-endian number b0 + 256 * b1, so
\* the two little-endian bytes (v mod 256, v div 256) of a value v in 0..4095
\* decode to a voxel whose value is v.
C14_RoundTrip ==
  vx_bytes # <<>> =>
    LET w == vx_bytes[1] + 256 * vx_bytes[2] IN
    /\ voxel_from_bytes(vx_bytes[1], vx_bytes[2]) = w
    /\ w <= 4095 => vx = [tag |-> "Ok", value |-> w]
    /\ w > 4095 => vx = [tag |-> "Err", err |-> [kind |-> "VoxelValueOOR", value |-> w]]
    /\ vx_value <= 4095 =>
         /\ vx_bytes = <<vx_value % 256, vx_value \div 256>>
         /\ vx.tag = "Ok"
         /\ Voxel_value(vx) = vx_value

\* A value whose two bytes differ and are not zero went through the bytes.
C14_Witness ==
  /\ vx_value = 258
  /\ vx_bytes = <<2, 1>>
  /\ vx = [tag |-> "Ok", value |-> 258]

====
